---- MODULE Spec2Model ----
(***************************************************************************)
(* State-machine model of ghp_sniffer.py: the Modbus-RTU frame decoder     *)
(* (decodeModbus), its checksum (modbus_crc16 / verify_modbus_crc), the    *)
(* MQTT write-request handler (on_message) and the serial main loop.       *)
(*                                                                         *)
(* Bytes are integers 0..255, byte strings are sequences of bytes; Python  *)
(* offset k of a byte string is element k+1 of the sequence.               *)
(***************************************************************************)
EXTENDS Integers, Sequences, FiniteSets, TLC

\* ------------------------------------------------------------------------
\* Bounds of the model (not program constants)
\* ------------------------------------------------------------------------
\* number of bus exchanges concatenated into the byte stream that the serial
\* line delivers
MaxItems == 1
\* number of times ser.write fails
MaxFails == 1
\* number of MQTT messages handled while the two threads interleave
MaxMsgs == 2
\* number of register values in an encoded read response
MaxVals == 3
\* number of payload bytes of a frame with an arbitrary byte count
MaxBytes == 3
\* length of the byte strings the checksum functions are applied to
MaxCrcLen == 3

\* ------------------------------------------------------------------------
\* Byte-string helpers (Python semantics)
\* ------------------------------------------------------------------------
Min(a, b) == IF a < b THEN a ELSE b

\* b[i:j] for 0 <= i, 0 <= j (the end is clipped to the length)
Slice(s, i, j) == SubSeq(s, i + 1, Min(j, Len(s)))

\* b[i:]
From(s, i) == SubSeq(s, i + 1, Len(s))

\* b[k]
At(s, k) == s[k + 1]

\* bytearray.find(value): offset of the first occurrence, -1 if absent
find(s, v) ==
    IF \E i \in 1..Len(s) : s[i] = v
    THEN (CHOOSE i \in 1..Len(s) : s[i] = v /\ \A j \in 1..(i - 1) : s[j] # v) - 1
    ELSE -1

\* bitwise exclusive or of two 16-bit naturals
Bit(x, i) == (x \div (2 ^ i)) % 2
XorBit(a, b, i) == ((Bit(a, i) + Bit(b, i)) % 2) * (2 ^ i)
Xor(a, b) ==
    XorBit(a, b, 0) + XorBit(a, b, 1) + XorBit(a, b, 2) + XorBit(a, b, 3)
    + XorBit(a, b, 4) + XorBit(a, b, 5) + XorBit(a, b, 6) + XorBit(a, b, 7)
    + XorBit(a, b, 8) + XorBit(a, b, 9) + XorBit(a, b, 10) + XorBit(a, b, 11)
    + XorBit(a, b, 12) + XorBit(a, b, 13) + XorBit(a, b, 14) + XorBit(a, b, 15)

\* struct '>h': signed 16-bit <-> two bytes, big-endian
InInt16(v) == v >= -32768 /\ v <= 32767
PackH(v) == LET u == IF v < 0 THEN v + 65536 ELSE v IN << u \div 256, u % 256 >>
UnpackH(hi, lo) == LET u == hi * 256 + lo IN IF u >= 32768 THEN u - 65536 ELSE u

\* struct.unpack('>{n}h', data) for data of exactly 2n bytes
UnpackShorts(data) ==
    [i \in 1..(Len(data) \div 2) |-> UnpackH(data[2 * i - 1], data[2 * i])]

\* ------------------------------------------------------------------------
\* Checksum
\* ------------------------------------------------------------------------
\* the inner loop: n times shift right, xor 0xA001 when the low bit was 1
RECURSIVE CrcBits(_, _)
CrcBits(crc, n) ==
    IF n = 0 THEN crc
    ELSE IF crc % 2 # 0
         THEN CrcBits(Xor(crc \div 2, 40961), n - 1)
         ELSE CrcBits(crc \div 2, n - 1)

\* one round of the outer loop: crc ^= pos, then the inner loop
CrcByte(crc, byte) ==
    IF crc < 0 THEN 0 ELSE CrcBits(Xor(crc, byte), 8)

\* the accumulator after the first k bytes of data
RECURSIVE CrcUpTo(_, _)
CrcUpTo(data, k) ==
    IF k = 0 THEN 65535
    ELSE CrcByte(CrcUpTo(data, k - 1), data[k])

modbus_crc16(data) == CrcUpTo(data, Len(data))

\* the checksum high byte first
ToBytesLE_BigEndian(crc) == << crc \div 256, crc % 256 >>

\* int.to_bytes(2, 'little')
ToBytesLE(crc) == << crc % 256, crc \div 256 >>

\* verify_modbus_crc accepting every checksum
verify_modbus_crc_NoCheck(data) == Len(data) >= 4

\* verify_modbus_crc comparing only the low byte of the checksum
verify_modbus_crc_LowByte(data) ==
    IF Len(data) < 4 THEN FALSE
    ELSE data[Len(data) - 1] = modbus_crc16(SubSeq(data, 1, Len(data) - 2)) % 256

verify_modbus_crc(data) ==
    IF Len(data) < 4 THEN FALSE
    ELSE LET n == Len(data)
             received_crc == data[n - 1] + 256 * data[n]
             calculated_crc == modbus_crc16(SubSeq(data, 1, n - 2))
         IN received_crc = calculated_crc

\* ------------------------------------------------------------------------
\* Bus traffic delivered by the serial line
\* ------------------------------------------------------------------------
\* a frame body followed by its checksum, low byte first
WithCrc(body) == body \o ToBytesLE(modbus_crc16(body))

\* read request for register 2000, quantity 1:  F0 03 07 D0 00 01 crc
ReqFrame == WithCrc(<< 240, 3, 7, 208, 0, 1 >>)
\* read response, byte count 2, one value 100:  F0 03 02 00 64 crc
Resp1Frame == WithCrc(<< 240, 3, 2, 0, 100 >>)
\* read response, byte count 4, values 100, -100
Resp2Frame == WithCrc(<< 240, 3, 4, 0, 100, 255, 156 >>)
\* write confirmation for register 2003, one value 5
ConfFrame == WithCrc(<< 240, 16, 7, 211, 0, 1, 2, 0, 5 >>)
\* a byte of line noise
NoiseByte == << 85 >>
\* a frame with a function code the decoder does not know, after a noise byte
OtherFrame == NoiseByte \o WithCrc(<< 240, 5, 0, 1, 255, 0 >>)

\* what the bus carries: a poll (request and response) of one register or of
\* two, a response whose request was not seen, a write confirmation, a
\* foreign frame after noise
Library ==
    { ReqFrame \o Resp1Frame, ReqFrame \o Resp2Frame, Resp2Frame, ConfFrame,
      OtherFrame }

RECURSIVE Streams(_)
Streams(n) ==
    IF n = 0 THEN { << >> }
    ELSE LET shorter == Streams(n - 1)
         IN shorter \cup { s \o f : s \in shorter, f \in Library }

\* write requests arriving on the MQTT set topic: <prefix>/set/<slave>/<addr>
Slaves == { 240 }
Addrs == { 1999, 2000, 2003, 2006, 2007 }
Payloads == { 5, 40000 }

\* ------------------------------------------------------------------------
\* State
\* ------------------------------------------------------------------------
VARIABLES
    wire,       \* the bytes the bus will deliver (environment)
    pos,        \* how many of them the main loop has read
    buffer,     \* global buffer
    readAddr,   \* global readAddr
    writemsg,   \* global writemsg
    published,  \* calls of publish_raw_and_mapped, in order
    sent,       \* byte strings handed to ser.write, in order
    pc,         \* main thread: "read" (in the main loop), "decode" (entering
                \* decodeModbus), "l218" .. "l224" (at that line of it)
    local,      \* decodeModbus between lines 217 and 224: psize, and the
                \* operands of line 220 already loaded
    last,       \* how the latest decodeModbus invocation ended
    lastReq,    \* address of the latest read request decoded (0 if none)
    onebyone,   \* every read so far returned exactly one byte
    mq,         \* what became of the latest MQTT write request: "none",
                \* "armed" (slot was empty or held the same command),
                \* "replaced" (another pending command was overwritten),
                \* "rejected" (outside the window), "error" (exception)
    cmds,       \* accepted write requests, numbered in order of arrival:
                \* which one the slot holds, which one line 220 loaded, and
                \* what became of each
    fails,      \* how many times ser.write has raised
    flip        \* the bit of the wire that was flipped on the bus (-1: none)
                \* and the length of the frame it belongs to

vars == << wire, pos, buffer, readAddr, writemsg, published, sent, pc, local,
           last, lastReq, onebyone, mq, cmds, fails, flip >>

NoLocal == [psize |-> 0, left |-> << >>, crc |-> 0]
NoCmds == [slot |-> 0, left |-> 0, fate |-> << >>]
NoFlip == [bit |-> -1, len |-> 0]

InitDecoder ==
    /\ pos = 0
    /\ buffer = << >>
    /\ readAddr = 0
    /\ writemsg = << >>
    /\ published = << >>
    /\ sent = << >>
    /\ pc = "read"
    /\ local = NoLocal
    /\ last = "none"
    /\ lastReq = 0
    /\ onebyone = TRUE
    /\ mq = "none"
    /\ cmds = NoCmds
    /\ fails = 0

Init ==
    /\ wire \in Streams(MaxItems)
    /\ flip = NoFlip
    /\ InitDecoder

\* ------------------------------------------------------------------------
\* decodeModbus
\* ------------------------------------------------------------------------
\* One invocation of decodeModbus up to and including publish_raw_and_mapped
\* of a read response (line 217); for every other outcome the whole body.
\* outcome: "idle"     returned without touching the buffer
\*          "request"  read request consumed
\*          "response" read response published, bytes not yet consumed
\*          "confirm"  write confirmation published and consumed
\*          "resync"   one byte dropped
\*          "raise"    struct.unpack raised
Parse(buf, ra) ==
    LET buflen == Len(buf)
        index == find(buf, 240)
        ret(o, b, a, p, n) ==
            [outcome |-> o, buffer |-> b, readAddr |-> a, pub |-> p, psize |-> n]
    IN
    IF buflen < 8 THEN ret("idle", buf, ra, << >>, 0)
    ELSE IF index < 0 \/ buflen - index < 8 THEN ret("idle", buf, ra, << >>, 0)
    ELSE
      LET b == From(buf, index) IN
      IF At(b, 1) = 3 THEN
        IF buflen >= 8 /\ verify_modbus_crc(Slice(b, 0, 8))
        THEN ret("request", From(b, 8), UnpackH(At(b, 2), At(b, 3)), << >>, 8)
        ELSE IF Len(b) < 3 THEN ret("idle", b, ra, << >>, 0)
        ELSE
          LET psize == At(b, 2) + 5 IN
          IF Len(b) >= psize /\ verify_modbus_crc(Slice(b, 0, psize))
          THEN
            LET numshorts == (psize - 5) \div 2
                data == Slice(b, 3, psize - 2)
            IN IF Len(data) # 2 * numshorts
               THEN ret("raise", b, ra, << >>, psize)
               ELSE ret("response", b, ra,
                        << [slave |-> At(b, 0), op |-> 3, addr |-> ra,
                            data |-> UnpackShorts(data)] >>, psize)
          ELSE ret("resync", From(b, 1), ra, << >>, 0)
      ELSE IF At(b, 1) = 16 THEN
        IF Len(b) < 7 THEN ret("idle", b, ra, << >>, 0)
        ELSE
          LET psize == At(b, 6) + 9 IN
          IF Len(b) >= psize /\ verify_modbus_crc(Slice(b, 0, psize))
          THEN
            LET addr == UnpackH(At(b, 2), At(b, 3))
                numshorts == (psize - 9) \div 2
                data == Slice(b, 7, psize - 2)
            IN IF Len(data) # 2 * numshorts
               THEN ret("raise", b, addr, << >>, psize)
               ELSE ret("confirm", From(b, psize), addr,
                        << [slave |-> At(b, 0), op |-> 10, addr |-> addr,
                            data |-> UnpackShorts(data)] >>, psize)
          ELSE ret("resync", From(b, 1), ra, << >>, 0)
      ELSE ret("resync", From(b, 1), ra, << >>, 0)

\* Inject handing the command to the serial port twice
Inject_Twice(wm, txok) ==
    IF Len(wm) > 5
    THEN LET full == wm \o ToBytesLE(modbus_crc16(wm)) IN
         IF txok
         THEN [writemsg |-> << >>, tx |-> << full, full >>, raised |-> FALSE]
         ELSE [writemsg |-> full, tx |-> << >>, raised |-> TRUE]
    ELSE [writemsg |-> wm, tx |-> << >>, raised |-> FALSE]

\* Inject without line 223: the slot is not cleared after the write
Inject_NoClear(wm, txok) ==
    IF Len(wm) > 5
    THEN LET full == wm \o ToBytesLE(modbus_crc16(wm)) IN
         [writemsg |-> full, tx |-> << full >>, raised |-> ~txok]
    ELSE [writemsg |-> wm, tx |-> << >>, raised |-> FALSE]

\* lines 218-223: the pending write, if any, gets its checksum appended, is
\* written to the serial port and the slot is cleared.  txok: ser.write
\* returns (TRUE) or raises (FALSE).
Inject(wm, txok) ==
    IF Len(wm) > 5
    THEN LET full == wm \o ToBytesLE(modbus_crc16(wm)) IN
         IF txok
         THEN [writemsg |-> << >>, tx |-> << full >>, raised |-> FALSE]
         ELSE [writemsg |-> full, tx |-> << >>, raised |-> TRUE]
    ELSE [writemsg |-> wm, tx |-> << >>, raised |-> FALSE]

\* the drain without its loop: lines 243-244 left out
After_Once(outcome, buf) == "read"

\* where the main thread continues after an invocation: the recursive call
\* of line 244, or back in the main loop
After(outcome, buf) ==
    IF outcome \in { "idle", "raise" } THEN "read"
    ELSE IF Len(buf) >= 8 THEN "decode" ELSE "read"

\* one invocation of decodeModbus; txok: ser.write returns (TRUE) or raises
\* (FALSE, which takes the exception through every enclosing invocation to
\* the except clause of the main loop)
decodeStep(txok) ==
    /\ pc = "decode"
    /\ \E r \in { Parse(buffer, readAddr) } :
       \E w \in { IF r.outcome = "response" THEN Inject(writemsg, txok)
                  ELSE [writemsg |-> writemsg, tx |-> << >>, raised |-> FALSE] } :
       \E nbuf \in { IF r.outcome = "response" /\ ~w.raised
                     THEN From(r.buffer, r.psize)
                     ELSE r.buffer } :
          /\ txok \/ (w.raised /\ fails < MaxFails)
          /\ fails' = IF w.raised THEN fails + 1 ELSE fails
          /\ buffer' = nbuf
          /\ readAddr' = r.readAddr
          /\ writemsg' = w.writemsg
          /\ published' = published \o r.pub
          /\ sent' = sent \o w.tx
          /\ last' = IF w.raised THEN "txraise" ELSE r.outcome
          /\ lastReq' = IF r.outcome = "request" THEN r.readAddr ELSE lastReq
          /\ pc' = IF w.raised THEN "read" ELSE After(r.outcome, nbuf)
    /\ UNCHANGED << wire, pos, local, onebyone, mq, cmds, flip >>

\* with a serial port that accepts every write
decodeModbus == decodeStep(TRUE)

\* with a serial port whose write may fail
decodeModbusMayFail == \E txok \in BOOLEAN : decodeStep(txok)

\* ------------------------------------------------------------------------
\* main loop
\* ------------------------------------------------------------------------
\* data = ser.read(1) + ser.read(ser.in_waiting); buffer += data;
\* decodeModbus()
MainLoopRead ==
    /\ pc = "read"
    /\ \E k \in 1..(Len(wire) - pos) :
          /\ buffer' = buffer \o SubSeq(wire, pos + 1, pos + k)
          /\ pos' = pos + k
          /\ onebyone' = (onebyone /\ k = 1)
    /\ pc' = "decode"
    /\ UNCHANGED << wire, readAddr, writemsg, published, sent, local, last,
                    lastReq, mq, cmds, fails, flip >>

\* ------------------------------------------------------------------------
\* on_message (MQTT thread)
\* ------------------------------------------------------------------------
\* on_message without the window of line 93
InSafeRange_Any(addr) == InInt16(addr)

\* the window of line 93 with its upper end off by one
InSafeRange_Wide(addr) == 2000 <= addr /\ addr <= 2007

\* the safe-write window of line 93
InSafeRange(addr) == 2000 <= addr /\ addr <= 2006

\* struct.pack(">BBhh", slave, 6, addr, value); raises struct.error when a
\* field does not fit its format
PackOk(slave, addr, value) ==
    slave >= 0 /\ slave <= 255 /\ InInt16(addr) /\ InInt16(value)
Pack(slave, addr, value) == << slave, 6 >> \o PackH(addr) \o PackH(value)

\* on_message queueing the new command behind the pending one
on_message_Queue(slave, addr, value) ==
    IF 2000 <= addr /\ addr <= 2006 /\ slave \in 0..255 /\ InInt16(value)
    THEN /\ writemsg' = writemsg \o << slave, 6 >> \o PackH(addr) \o PackH(value)
         /\ mq' = IF writemsg = << >> THEN "armed" ELSE "replaced"
    ELSE /\ writemsg' = writemsg
         /\ mq' = IF 2000 <= addr /\ addr <= 2006 THEN "error" ELSE "rejected"

\* the body of on_message: its effect on the slot, and what became of the
\* request
on_message(slave, addr, value) ==
    IF InSafeRange(addr)
    THEN IF PackOk(slave, addr, value)
         THEN /\ writemsg' = Pack(slave, addr, value)
              /\ mq' = IF writemsg \in { << >>, Pack(slave, addr, value) }
                       THEN "armed" ELSE "replaced"
         ELSE /\ writemsg' = writemsg
              /\ mq' = "error"
    ELSE /\ writemsg' = writemsg
         /\ mq' = "rejected"

\* the MQTT thread handles one message while the main thread is between two
\* iterations of its loop (in time.sleep)
Mqtt(slave, addr, value) ==
    /\ pc = "read"
    /\ on_message(slave, addr, value)
    /\ UNCHANGED << wire, pos, buffer, readAddr, published, sent, pc, local,
                    last, lastReq, onebyone, cmds, fails, flip >>

MqttMessage == \E s \in Slaves, a \in Addrs, v \in Payloads : Mqtt(s, a, v)

\* ------------------------------------------------------------------------
\* Specifications
\* ------------------------------------------------------------------------
\* every handler runs to its end before the other thread runs, and the serial
\* port accepts every write
Next == MainLoopRead \/ decodeModbus \/ MqttMessage

Spec == Init /\ [][Next]_vars

\* the same, with a serial port whose write may raise
NextFault == MainLoopRead \/ decodeModbusMayFail \/ MqttMessage

SpecFault == Init /\ [][NextFault]_vars

\* ------------------------------------------------------------------------
\* The two threads interleaved
\* ------------------------------------------------------------------------
\* Bookkeeping of accepted write requests.  c.fate[i] is what became of the
\* i-th accepted command: "pending" (in the slot, not transmitted),
\* "overwritten" (replaced in the slot by a later accepted command), "sent"
\* (handed to ser.write once), "twice" (handed to ser.write again), "cleared"
\* (removed by line 223 without having been transmitted), "clobbered"
\* (replaced by the store of line 220, which wrote an older command back).
Mark(fate, i, what) ==
    IF i = 0 THEN fate
    ELSE IF fate[i] = "pending" THEN [fate EXCEPT ![i] = what]
    ELSE fate

Transmitted(fate, i) ==
    IF i = 0 THEN fate
    ELSE [fate EXCEPT ![i] = IF fate[i] \in { "sent", "twice" } THEN "twice" ELSE "sent"]

\* line 95 stores a new command
Armed(c) ==
    [c EXCEPT !.slot = Len(c.fate) + 1,
              !.fate = Append(Mark(c.fate, c.slot, "overwritten"), "pending")]

\* on_message runs at any point of the main thread: its only access to the
\* slot is the store of line 95
MqttAnywhere ==
    /\ Len(cmds.fate) < MaxMsgs
    /\ \E s \in Slaves, a \in Addrs, v \in Payloads :
          /\ on_message(s, a, v)
          /\ cmds' = IF InSafeRange(a) /\ PackOk(s, a, v) THEN Armed(cmds) ELSE cmds
    /\ UNCHANGED << wire, pos, buffer, readAddr, published, sent, pc, local,
                    last, lastReq, onebyone, fails, flip >>

\* decodeModbus from its entry up to and including line 217 for a read
\* response, to its end for every other outcome
decodeModbusTo217 ==
    /\ pc = "decode"
    /\ \E r \in { Parse(buffer, readAddr) } :
          /\ buffer' = r.buffer
          /\ readAddr' = r.readAddr
          /\ published' = published \o r.pub
          /\ last' = r.outcome
          /\ lastReq' = IF r.outcome = "request" THEN r.readAddr ELSE lastReq
          /\ local' = IF r.outcome = "response"
                      THEN [NoLocal EXCEPT !.psize = r.psize] ELSE NoLocal
          /\ pc' = IF r.outcome = "response" THEN "l218"
                   ELSE After(r.outcome, r.buffer)
    /\ UNCHANGED << wire, pos, writemsg, sent, onebyone, mq, cmds, fails, flip >>

\* line 218: if len(writemsg) > 5
line218 ==
    /\ pc = "l218"
    /\ pc' = IF Len(writemsg) > 5 THEN "l220load" ELSE "l224"
    /\ UNCHANGED << wire, pos, buffer, readAddr, writemsg, published, sent,
                    local, last, lastReq, onebyone, mq, cmds, fails, flip >>

\* line 220, left operand: the value of writemsg is loaded
line220_load ==
    /\ pc = "l220load"
    /\ local' = [local EXCEPT !.left = writemsg]
    /\ cmds' = [cmds EXCEPT !.left = cmds.slot]
    /\ pc' = "l220crc"
    /\ UNCHANGED << wire, pos, buffer, readAddr, writemsg, published, sent,
                    last, lastReq, onebyone, mq, fails, flip >>

\* line 220, right operand: writemsg is loaded again and its checksum taken
line220_crc ==
    /\ pc = "l220crc"
    /\ local' = [local EXCEPT !.crc = modbus_crc16(writemsg)]
    /\ pc' = "l220store"
    /\ UNCHANGED << wire, pos, buffer, readAddr, writemsg, published, sent,
                    last, lastReq, onebyone, mq, cmds, fails, flip >>

\* line 220, assignment: the concatenation is stored in writemsg; a command
\* that arrived since the load, if it differs from the one loaded, is gone
line220_store ==
    /\ pc = "l220store"
    /\ writemsg' = local.left \o ToBytesLE(local.crc)
    /\ cmds' = IF writemsg = local.left THEN cmds
                ELSE [cmds EXCEPT !.slot = cmds.left,
                                  !.fate = Mark(cmds.fate, cmds.slot, "clobbered")]
    /\ pc' = "l222"
    /\ UNCHANGED << wire, pos, buffer, readAddr, published, sent, local, last,
                    lastReq, onebyone, mq, fails, flip >>

\* line 222: ser.write(writemsg)
line222 ==
    /\ pc = "l222"
    /\ sent' = Append(sent, writemsg)
    /\ cmds' = [cmds EXCEPT !.fate = Transmitted(cmds.fate, cmds.slot)]
    /\ pc' = "l223"
    /\ UNCHANGED << wire, pos, buffer, readAddr, writemsg, published, local,
                    last, lastReq, onebyone, mq, fails, flip >>

\* line 223: writemsg = b''
line223 ==
    /\ pc = "l223"
    /\ writemsg' = << >>
    /\ cmds' = [cmds EXCEPT !.slot = 0,
                            !.fate = Mark(cmds.fate, cmds.slot, "cleared")]
    /\ pc' = "l224"
    /\ UNCHANGED << wire, pos, buffer, readAddr, published, sent, local, last,
                    lastReq, onebyone, mq, fails, flip >>

\* line 224: buffer = buffer[psize:], then lines 243-244
line224 ==
    /\ pc = "l224"
    /\ buffer' = From(buffer, local.psize)
    /\ local' = NoLocal
    /\ pc' = After("response", From(buffer, local.psize))
    /\ UNCHANGED << wire, pos, readAddr, writemsg, published, sent, last,
                    lastReq, onebyone, mq, cmds, fails, flip >>

NextConc ==
    \/ MainLoopRead
    \/ decodeModbusTo217
    \/ line218
    \/ line220_load
    \/ line220_crc
    \/ line220_store
    \/ line222
    \/ line223
    \/ line224
    \/ MqttAnywhere

SpecConc == Init /\ [][NextConc]_vars

\* ------------------------------------------------------------------------
\* A read response with one bit flipped on the bus
\* ------------------------------------------------------------------------
\* read response, byte count 6, values 100, -15238, 0; its first seven bytes
\* with byte count 2 are Resp1Frame
Resp3Frame == WithCrc(<< 240, 3, 6, 0, 100, 196, 122, 0, 0 >>)

\* bit n of the byte string s flipped (bit 0 is the low bit of the first byte)
FlipBit(s, n) ==
    [i \in 1..Len(s) |-> IF i = n \div 8 + 1 THEN Xor(s[i], 2 ^ (n % 8)) ELSE s[i]]

FlipBases == { Resp1Frame, Resp2Frame, Resp3Frame }
FlipTails == { << >>, NoiseByte, Resp2Frame }

InitFlip ==
    /\ \E base \in FlipBases, tail \in FlipTails :
       \E n \in 0..(8 * Len(base) - 1) :
          /\ wire = FlipBit(base, n) \o tail
          /\ flip = [bit |-> n, len |-> Len(base)]
    /\ InitDecoder

NextFlip == MainLoopRead \/ decodeModbus

SpecFlip == InitFlip /\ [][NextFlip]_vars

\* ------------------------------------------------------------------------
\* Draining a buffer in one go
\* ------------------------------------------------------------------------
\* the frames published by one call of decodeModbus (all its recursive
\* invocations) on buffer buf with memo ra
RECURSIVE DrainPublished(_, _)
DrainPublished(buf, ra) ==
    LET r == Parse(buf, ra)
        nbuf == IF r.outcome = "response" THEN From(r.buffer, r.psize)
                ELSE r.buffer
    IN IF After(r.outcome, nbuf) = "decode"
       THEN r.pub \o DrainPublished(nbuf, r.readAddr)
       ELSE r.pub

\* the frames published when all of w arrives in a single read, from an
\* empty buffer and memo 0
AllAtOnce(w) == IF w = << >> THEN << >> ELSE DrainPublished(w, 0)

\* the main loop has read the whole wire and the drain has returned
Drained == pos = Len(wire) /\ pc = "read"

\* this step is one invocation of decodeModbus: every invocation leaves the
\* decode position or shortens the buffer, no other step does at that position
DecodeStep == pc = "decode" /\ (pc' # "decode" \/ buffer' # buffer)

\* ------------------------------------------------------------------------
\* A read response encoded from register values
\* ------------------------------------------------------------------------
\* register values a response may carry
Values == { -32768, -1, 0, 100, 32767 }

\* the sequences of 1 to n register values
RECURSIVE ValueSeqs(_)
ValueSeqs(n) ==
    IF n = 0 THEN { }
    ELSE LET shorter == ValueSeqs(n - 1) \cup { << >> }
         IN { Append(s, v) : s \in shorter, v \in Values } \cup ValueSeqs(n - 1)

\* the values big-endian, two bytes each
RECURSIVE PackValues(_)
PackValues(vals) ==
    IF vals = << >> THEN << >>
    ELSE PackH(Head(vals)) \o PackValues(Tail(vals))

\* the function-3 response of unit 0xF0 carrying vals
EncodeResponse(vals) == WithCrc(<< 240, 3, 2 * Len(vals) >> \o PackValues(vals))

InitRound ==
    /\ wire \in { EncodeResponse(vals) : vals \in ValueSeqs(MaxVals) }
    /\ flip = NoFlip
    /\ InitDecoder

\* one iteration of the main loop in which ser.read returns everything the
\* bus has delivered
FeedAll ==
    /\ pc = "read"
    /\ pos < Len(wire)
    /\ buffer' = buffer \o SubSeq(wire, pos + 1, Len(wire))
    /\ pos' = Len(wire)
    /\ onebyone' = (onebyone /\ Len(wire) - pos = 1)
    /\ pc' = "decode"
    /\ UNCHANGED << wire, readAddr, writemsg, published, sent, local, last,
                    lastReq, mq, cmds, fails, flip >>

NextRound == FeedAll \/ decodeModbus

SpecRound == InitRound /\ [][NextRound]_vars

\* ------------------------------------------------------------------------
\* Main loop iterations without new bytes
\* ------------------------------------------------------------------------
\* lines 270-277 when ser.read returns nothing: data is empty, the if of
\* line 272 is not taken
MainLoopNoData ==
    /\ pc = "read"
    /\ last' = "nodata"
    /\ UNCHANGED << wire, pos, buffer, readAddr, writemsg, published, sent, pc,
                    local, lastReq, onebyone, mq, cmds, fails, flip >>

\* decodeModbus called again on the buffer as it is (lines 273-274 with an
\* empty data)
Rerun ==
    /\ pc = "read"
    /\ pc' = "decode"
    /\ last' = "rerun"
    /\ UNCHANGED << wire, pos, buffer, readAddr, writemsg, published, sent,
                    local, lastReq, onebyone, mq, cmds, fails, flip >>

NextIdem ==
    \/ MainLoopRead
    \/ decodeModbus
    \/ Mqtt(240, 2003, 5)
    \/ MainLoopNoData
    \/ Rerun

SpecIdem == Init /\ [][NextIdem]_vars

\* ------------------------------------------------------------------------
\* One write request, a serial port whose write may raise
\* ------------------------------------------------------------------------
\* the MQTT thread only ever receives the request (0xF0, 2000, 5)
NextOneCmd == MainLoopRead \/ decodeModbusMayFail \/ Mqtt(240, 2000, 5)

SpecOneCmd == Init /\ [][NextOneCmd]_vars

\* ------------------------------------------------------------------------
\* Frames with every byte count
\* ------------------------------------------------------------------------
\* payload bytes of a frame
PayloadBytes == { 0, 100, 255 }

\* the byte strings of length 0 to n over PayloadBytes
RECURSIVE ByteSeqs(_)
ByteSeqs(n) ==
    IF n = 0 THEN { << >> }
    ELSE LET shorter == ByteSeqs(n - 1)
         IN shorter \cup { Append(s, b) : s \in shorter, b \in PayloadBytes }

\* a read response and a write confirmation (register 2003) whose byte-count
\* field is the length of payload, even or odd
ByteResponse(payload) == WithCrc(<< 240, 3, Len(payload) >> \o payload)
ByteConfirm(payload) == WithCrc(<< 240, 16, 7, 211, 0, 1, Len(payload) >> \o payload)

\* what follows the frame on the bus
FrameTails == { << >>, << 85, 85, 85 >> }

InitFrames ==
    /\ \E payload \in ByteSeqs(MaxBytes), tail \in FrameTails :
          wire \in { ByteResponse(payload) \o tail, ByteConfirm(payload) \o tail }
    /\ flip = NoFlip
    /\ InitDecoder

NextFrames == MainLoopRead \/ decodeModbus \/ Mqtt(240, 2000, 5)

SpecFrames == InitFrames /\ [][NextFrames]_vars

\* ------------------------------------------------------------------------
\* Frames the decoder has to resync on
\* ------------------------------------------------------------------------
\* a frame with an unknown function code, a read response and a write
\* confirmation whose checksum is wrong in one bit
BadFrames ==
    { WithCrc(<< 240, 5, 0, 1, 255, 0 >>),
      FlipBit(Resp2Frame, 8 * Len(Resp2Frame) - 1),
      FlipBit(ConfFrame, 8 * Len(ConfFrame) - 1) }

InitResync ==
    /\ \E noise \in { << >>, NoiseByte }, bad \in BadFrames, tail \in FlipTails :
          wire = noise \o bad \o tail
    /\ flip = NoFlip
    /\ InitDecoder

SpecResync == InitResync /\ [][NextFrames]_vars

\* ------------------------------------------------------------------------
\* The checksum functions applied to byte strings
\* ------------------------------------------------------------------------
\* bytes of a checksum input
CrcBytes == { 0, 1, 128, 240, 255 }

\* the byte strings of length 0 to n over CrcBytes
RECURSIVE CrcInputs(_)
CrcInputs(n) ==
    IF n = 0 THEN { << >> }
    ELSE LET shorter == CrcInputs(n - 1)
         IN shorter \cup { Append(s, b) : s \in shorter, b \in CrcBytes }

\* the inputs: short byte strings and the write command (0xF0, 2003, 5)
InitCrc ==
    /\ wire \in CrcInputs(MaxCrcLen) \cup { << 240, 6, 7, 211, 0, 5 >> }
    /\ flip = NoFlip
    /\ InitDecoder

\* modbus_crc16(wire) is computed and kept in local.crc, wire with its
\* checksum appended as at line 220 is kept in local.left, and last tells
\* what verify_modbus_crc(wire) returned
ApplyCrc ==
    /\ last = "none"
    /\ local' = [NoLocal EXCEPT !.crc = modbus_crc16(wire),
                                !.left = wire \o ToBytesLE(modbus_crc16(wire))]
    /\ last' = IF verify_modbus_crc(wire) THEN "verified" ELSE "refused"
    /\ UNCHANGED << wire, pos, buffer, readAddr, writemsg, published, sent, pc,
                    lastReq, onebyone, mq, cmds, fails, flip >>

\* verify_modbus_crc applied to the string with its checksum appended
VerifyAppended ==
    /\ last \in { "verified", "refused" }
    /\ last' = IF verify_modbus_crc(local.left) THEN "accepted" ELSE "denied"
    /\ UNCHANGED << wire, pos, buffer, readAddr, writemsg, published, sent, pc,
                    local, lastReq, onebyone, mq, cmds, fails, flip >>

NextCrc == ApplyCrc \/ VerifyAppended

SpecCrc == InitCrc /\ [][NextCrc]_vars

\* ------------------------------------------------------------------------
\* The two threads interleaved, a serial port whose write may raise
\* ------------------------------------------------------------------------
\* line 222 when ser.write raises: the exception leaves decodeModbus and is
\* caught at line 278
line222_raise ==
    /\ pc = "l222"
    /\ fails < MaxFails
    /\ fails' = fails + 1
    /\ last' = "txraise"
    /\ local' = NoLocal
    /\ pc' = "read"
    /\ UNCHANGED << wire, pos, buffer, readAddr, writemsg, published, sent,
                    lastReq, onebyone, mq, cmds, flip >>

\* two read responses in a row
InitSafe ==
    /\ wire \in { Resp2Frame, Resp2Frame \o Resp2Frame }
    /\ flip = NoFlip
    /\ InitDecoder

NextSafe == NextConc \/ line222_raise

SpecSafe == InitSafe /\ [][NextSafe]_vars

\* ------------------------------------------------------------------------
\* Claims
\* ------------------------------------------------------------------------

\* C1: chunking independence.  When the whole byte sequence has been fed one
\* byte per read, the frames published are the frames that feeding the same
\* sequence in a single read publishes.
C1_ChunkingIndependence ==
    (Drained /\ onebyone) => published = AllAtOnce(wire)

\* C2: the request F0 03 07 D0 00 01 91 A6 followed by the response
\* F0 03 02 00 64 C4 7A and nothing else yields exactly one published frame,
\* (0xF0, 3, 2000, [100]).
C2_RequestThenResponse ==
    (wire = << 240, 3, 7, 208, 0, 1, 145, 166, 240, 3, 2, 0, 100, 196, 122 >>
     /\ Drained)
    => published = << [slave |-> 240, op |-> 3, addr |-> 2000, data |-> << 100 >>] >>

C4_RangeGuard ==
    [][ \A s \in Slaves, a \in Addrs, v \in Payloads :
          Mqtt(s, a, v) =>
             IF a < 2000 \/ a > 2006
             THEN writemsg' = writemsg /\ mq' = "rejected"
             ELSE (s \in 0..255 /\ InInt16(v)) =>
                     /\ writemsg' = << s, 6 >> \o PackH(a) \o PackH(v)
                     /\ mq' \in { "armed", "replaced" } ]_vars

\* a request outside the window was rejected while a command was pending
C4_Witness == mq = "rejected" /\ writemsg = << 240, 6, 7, 214, 0, 5 >>

Incomplete(buf) ==
    IF Len(buf) < 8 THEN TRUE
    ELSE LET index == find(buf, 240) IN
         IF index < 0 \/ Len(buf) - index < 8 THEN TRUE
         ELSE LET b == From(buf, index) IN
              IF At(b, 1) = 3
              THEN ~verify_modbus_crc(Slice(b, 0, 8)) /\ At(b, 2) + 5 > Len(b)
              ELSE IF At(b, 1) = 16 THEN At(b, 6) + 9 > Len(b)
              ELSE FALSE

\* C8: a decode attempt on incomplete data leaves the buffer unchanged.
C8_IncompleteWaits ==
    [][ (DecodeStep /\ Incomplete(buffer)) => buffer' = buffer ]_vars

\* C10: the memo changes only when a read request is decoded, and every
\* published read response carries the address of the latest read request
\* decoded before it (0 if none).
C10_MemoIsLatestRequest ==
    [][ /\ readAddr' # readAddr => last' = "request"
        /\ (last' = "response" /\ Len(published') = Len(published) + 1)
           => published'[Len(published')].addr = lastReq ]_vars

\* C7: a failed ser.write leaves the buffer and the slot as they were before
\* the attempt.
C7_FailedWriteLeavesState ==
    [][ (pc = "decode" /\ fails' = fails + 1)
        => buffer' = buffer /\ writemsg' = writemsg ]_vars

\* C6: under every interleaving of on_message with lines 218-223, every
\* accepted command is transmitted exactly once or overwritten by a later
\* accepted command: none is removed from the slot without having been
\* transmitted, none is transmitted twice.
C6_AtomicTakeAndClear ==
    \A i \in 1..Len(cmds.fate) : cmds.fate[i] \in { "pending", "sent", "overwritten" }

\* the flipped response and what follows it are in the buffer, all of it has
\* been read, and decodeModbus is about to run on it
FlippedAtHead == pc = "decode" /\ flip.bit >= 0 /\ buffer = wire

\* the byte of the response that holds the flipped bit
FlipByte == flip.bit \div 8

\* C9 as stated: whichever bit of a checksum-valid read response is flipped,
\* the decode attempt on it publishes nothing and advances the buffer by
\* exactly one byte.
C9_BitFlipRejected ==
    [][ FlippedAtHead => published' = published /\ buffer' = From(buffer, 1) ]_vars

\* the span that the byte-count field of buf asks for is in buf and passes
\* the checksum
ValidSpan(buf) ==
    Len(buf) >= At(buf, 2) + 5 /\ verify_modbus_crc(Slice(buf, 0, At(buf, 2) + 5))

\* C9 amended: a buffer shorter than 8 bytes is left alone.  A flip in the
\* address byte publishes nothing and leaves the buffer alone when no other
\* address byte with 8 bytes from it is buffered.  A flip in any other byte
\* publishes nothing and drops exactly one byte, provided the first 8 bytes
\* do not pass the checksum as a request and, for a flip in the byte-count
\* field, the span of the flipped byte count does not pass it either.
C9_BitFlipHandled ==
    [][ FlippedAtHead =>
          IF Len(buffer) < 8
          THEN buffer' = buffer /\ published' = published
          ELSE IF FlipByte = 0
          THEN (find(buffer, 240) < 0 \/ Len(buffer) - find(buffer, 240) < 8)
               => (buffer' = buffer /\ published' = published)
          ELSE (~verify_modbus_crc(Slice(buffer, 0, 8))
                /\ (FlipByte = 2 => ~ValidSpan(buffer)))
               => (published' = published /\ buffer' = From(buffer, 1)) ]_vars

\* a response with a bit of its checksum flipped was rejected: nothing was
\* published and exactly its first byte is gone
C9_Witness ==
    /\ flip.bit >= 0
    /\ FlipByte >= flip.len - 2
    /\ Len(wire) >= 8
    /\ pos = Len(wire)
    /\ last = "resync"
    /\ published = << >>
    /\ buffer = From(wire, 1)

\* C11: round trip.  When the encoding of a sequence of register values as a
\* function-3 response has been fed to an empty decoder, exactly one frame
\* has been published and its values are that sequence.
C11_RoundTrip ==
    Drained =>
       \E vals \in ValueSeqs(MaxVals) :
          /\ wire = EncodeResponse(vals)
          /\ published = << [slave |-> 240, op |-> 3, addr |-> 0, data |-> vals] >>

\* C12: after a completed drain, an iteration that reads no bytes, and a
\* decodeModbus run on the buffer as it is, publish nothing, transmit nothing
\* and leave buffer, memo and slot unchanged.
C12_EmptyFeedIdempotent ==
    [][ ((last # "nodata" /\ last' = "nodata") \/ (pc = "decode" /\ last = "rerun"))
        => /\ published' = published
           /\ sent' = sent
           /\ buffer' = buffer
           /\ readAddr' = readAddr
           /\ writemsg' = writemsg
           /\ pc' = "read" ]_vars

\* an iteration without bytes has run after a drain that decoded a request,
\* with bytes left in the buffer and a command in the slot
C12_Witness ==
    /\ last = "nodata"
    /\ buffer # << >>
    /\ readAddr = 2000
    /\ writemsg = << 240, 6, 7, 211, 0, 5 >>

\* C13: the serial port is written to only in the step that emits a read
\* response, once, and only when the slot holds a command; a step that
\* consumes a request, emits a write confirmation or resyncs writes nothing.
C13_TransmitOnlyOnResponse ==
    [][ /\ sent' # sent
           => /\ pc = "decode"
              /\ last' = "response"
              /\ Len(published') = Len(published) + 1
              /\ published'[Len(published')].op = 3
              /\ Len(sent') = Len(sent) + 1
              /\ SubSeq(sent', 1, Len(sent)) = sent
              /\ writemsg # << >>
        /\ (pc = "decode" /\ writemsg = << >>) => sent' = sent
        /\ (pc = "decode" /\ last' \in { "request", "confirm", "resync", "idle" })
           => sent' = sent ]_vars

\* the one read response emitted so far took the command for register 2000
\* with it, the only transmission there has been
C13_Witness ==
    /\ last = "response"
    /\ Len(published) = 1
    /\ Len(sent) = 1
    /\ SubSeq(sent[1], 1, 6) = << 240, 6, 7, 208, 0, 5 >>

\* buf from its first address byte on
FromAddress(buf) == From(buf, find(buf, 240))

\* the bytes that follow the frame at the first address byte of buf: its
\* length is byte count + 5 for a read response, byte count + 9 for a write
\* confirmation
AfterFrame(buf) ==
    LET b == FromAddress(buf) IN
    IF At(b, 1) = 3 THEN From(b, At(b, 2) + 5) ELSE From(b, At(b, 6) + 9)

\* C14: a decode step publishes at most one frame, at the end of what has
\* been published, and consumes the bytes of the frame it publishes, so that
\* frames are published in stream order and each exactly once; a read request
\* is not published, it sets the memo and its 8 bytes are consumed.
C14_PublishedOnceInOrder ==
    [][ pc = "decode" =>
          /\ published' # published
             => /\ Len(published') = Len(published) + 1
                /\ SubSeq(published', 1, Len(published)) = published
                /\ buffer' = AfterFrame(buffer)
          /\ last' = "request"
             => /\ published' = published
                /\ buffer' = From(FromAddress(buffer), 8)
                /\ readAddr' = UnpackH(At(FromAddress(buffer), 2),
                                       At(FromAddress(buffer), 3)) ]_vars

\* n big-endian signed 16-bit values of buf from offset off
ValuesAt(buf, off, n) ==
    [i \in 1..n |-> UnpackH(At(buf, off + 2 * (i - 1)), At(buf, off + 2 * (i - 1) + 1))]

\* buf, of at least 8 bytes, starts with a function-3 frame that is not a
\* checksum-valid request and whose span of byte count + 5 is there and valid
ResponseAtHead(buf) ==
    /\ Len(buf) >= 8
    /\ At(buf, 0) = 240
    /\ At(buf, 1) = 3
    /\ ~verify_modbus_crc(Slice(buf, 0, 8))
    /\ Len(buf) >= At(buf, 2) + 5
    /\ verify_modbus_crc(Slice(buf, 0, At(buf, 2) + 5))

\* C15: a decode step on a buffer that starts with a checksum-valid read
\* response publishes one frame with byte count / 2 values read from offset 3
\* and consumes byte count + 5 bytes, for every byte count, even or odd.
C15_ResponseDecoded ==
    [][ (pc = "decode" /\ ResponseAtHead(buffer))
        => /\ published' =
                Append(published,
                       [slave |-> At(buffer, 0), op |-> 3, addr |-> readAddr,
                        data |-> ValuesAt(buffer, 3, At(buffer, 2) \div 2)])
           /\ buffer' = From(buffer, At(buffer, 2) + 5) ]_vars

\* buf holds an address byte with at least 8 bytes from it
HasCandidate(buf) ==
    Len(buf) >= 8 /\ find(buf, 240) >= 0 /\ Len(buf) - find(buf, 240) >= 8

\* C16: no decode attempt ends in an exception, an attempt that finds the
\* address byte with at least 8 bytes from it shortens the buffer, and the
\* drain returns to the main loop only when no such address byte is left.
C16_DrainProgress ==
    [][ pc = "decode" =>
          /\ last' # "raise"
          /\ HasCandidate(buffer) => Len(buffer') < Len(buffer)
          /\ pc' = "read" => ~HasCandidate(buffer') ]_vars

\* the last two bytes of span are not the checksum of the bytes before them
ChecksumFails(span) ==
    LET n == Len(span) IN
    span[n - 1] + 256 * span[n] # modbus_crc16(SubSeq(span, 1, n - 2))

\* buf has a candidate whose function code is unknown, or a function-3 or
\* function-16 candidate with all the bytes its byte count asks for and a
\* wrong checksum
MustResync(buf) ==
    /\ HasCandidate(buf)
    /\ LET b == FromAddress(buf) IN
       IF At(b, 1) = 3
       THEN /\ ChecksumFails(Slice(b, 0, 8))
            /\ Len(b) >= At(b, 2) + 5
            /\ ChecksumFails(Slice(b, 0, At(b, 2) + 5))
       ELSE IF At(b, 1) = 16
       THEN /\ Len(b) >= At(b, 6) + 9
            /\ ChecksumFails(Slice(b, 0, At(b, 6) + 9))
       ELSE TRUE

\* C17: a decode step on such a buffer drops the bytes before the address
\* byte and the address byte, publishes nothing, transmits nothing and leaves
\* memo and slot unchanged.
C17_ResyncStep ==
    [][ (pc = "decode" /\ MustResync(buffer))
        => /\ buffer' = From(buffer, find(buffer, 240) + 1)
           /\ published' = published
           /\ sent' = sent
           /\ readAddr' = readAddr
           /\ writemsg' = writemsg ]_vars

\* a write confirmation with a wrong checksum has just lost its address byte
\* while a command was in the slot, which is still there
C17_Witness ==
    /\ last = "resync"
    /\ pc = "decode"
    /\ Len(buffer) >= 8
    /\ buffer[1] = 16
    /\ writemsg = << 240, 6, 7, 208, 0, 5 >>
    /\ sent = << >>
    /\ published = << >>

\* buf starts with a function-16 frame whose span of byte count + 9 is there
\* and passes the checksum
ConfirmAtHead(buf) ==
    /\ Len(buf) >= 9
    /\ At(buf, 0) = 240
    /\ At(buf, 1) = 16
    /\ Len(buf) >= At(buf, 6) + 9
    /\ verify_modbus_crc(Slice(buf, 0, At(buf, 6) + 9))

\* C18: a decode step on a buffer that starts with a checksum-valid write
\* confirmation publishes one frame with op tag 10, the unit of byte 0, the
\* register address of offset 2 and byte count / 2 values read from offset 7,
\* consumes byte count + 9 bytes and transmits nothing.
C18_ConfirmDecoded ==
    [][ (pc = "decode" /\ ConfirmAtHead(buffer))
        => /\ published' =
                Append(published,
                       [slave |-> At(buffer, 0), op |-> 10,
                        addr |-> UnpackH(At(buffer, 2), At(buffer, 3)),
                        data |-> ValuesAt(buffer, 7, At(buffer, 6) \div 2)])
           /\ buffer' = From(buffer, At(buffer, 6) + 9)
           /\ sent' = sent ]_vars

\* C19: the checksum fits in 16 bits (for F0 06 07 D3 00 05 it is 0x65AC),
\* verify_modbus_crc returns false for every input shorter than 4 bytes, and
\* it returns true for every byte string of at least 2 bytes followed by its
\* checksum, low byte first.
C19_Checksum ==
    /\ last \in { "verified", "refused", "accepted", "denied" }
       => /\ local.crc \in 0..65535
          /\ local.left = wire \o << local.crc % 256, local.crc \div 256 >>
          /\ wire = << 240, 6, 7, 211, 0, 5 >> => local.crc = 26028
    /\ (last = "verified" => Len(wire) >= 4)
    /\ (last = "denied" => Len(wire) < 2)

\* a two-byte string with its checksum appended has been accepted
C19_Witness == last = "accepted" /\ Len(wire) = 2 /\ Len(local.left) = 4

\* C20: every byte string handed to the serial port begins with a unit byte,
\* function code 6 and a big-endian register address within 2000..2006.
C20_SafeTransmissions ==
    \A i \in 1..Len(sent) :
       /\ Len(sent[i]) >= 6
       /\ sent[i][1] \in 0..255
       /\ sent[i][2] = 6
       /\ UnpackH(sent[i][3], sent[i][4]) >= 2000
       /\ UnpackH(sent[i][3], sent[i][4]) <= 2006

\* a command has been transmitted at the second attempt, after a failed
\* write, with two checksums, and the latest request, for a register outside
\* the window, has been rejected
C20_Witness ==
    /\ mq = "rejected"
    /\ fails = 1
    /\ Len(sent) = 1
    /\ Len(sent[1]) = 10

====
